---- MODULE Spec2Model ----
(***************************************************************************)
(* Model of mesh_gateway.py: the Interface class (CSV log initialisation,  *)
(* serial handle, get_message, log_event), SensorEvent.from_buffer and the *)
(* gateway loop under __main__.                                            *)
(*                                                                         *)
(* Python indices are kept 0-based through At / Slice / SliceFrom.         *)
(* An attribute that was never assigned is Unset (<<>>); an assigned one   *)
(* is Some(v) (<<v>>).  The float value_raw / 100 is kept as the exact     *)
(* fraction <<value_raw, 100>>.                                            *)
(***************************************************************************)
EXTENDS Integers, Sequences, FiniteSets, TLC

VARIABLES
    pc,        \* position of the process: start, read, decode, log, halted
    ser,       \* Interface._ser: unset (attribute missing), none, notopen, open
    csv,       \* the file at csv_path: NoFile or the sequence of rows written
    buf,       \* get_message: bytes returned by the latest _ser.read(10)
    outcome,   \* how the latest get_message call ended
    message,   \* __main__: the local `message`
    event,     \* __main__: the SensorEvent object reused by the loop
    evOutcome, \* how from_buffer ended on the latest message
    logged,    \* a row was written for the latest message
    exc,       \* the exception that ended the process, if any
    clock,     \* logical time: number of serial reads made so far
    runs,      \* number of times the script was started
    cursor     \* read cursor of the byte source: bytes consumed so far

vars == <<pc, ser, csv, buf, outcome, message, event, evOutcome, logged,
          exc, clock, runs, cursor>>

---------------------------------------------------------------------------
(* Bounds *)

MaxReads == 2

MaxRuns == 2

---------------------------------------------------------------------------
(* Protocol constants *)

Temperature == 117

Humidity == 118

MSG_POLL == 0

MSG_PUB == 1

MSG_ACK == 254

MSG_NACK == 255

StartMarker == 170

FrameLen == 10

---------------------------------------------------------------------------
(* Python helpers *)

Unset == <<>>

Some(v) == <<v>>

Min(a, b) == IF a < b THEN a ELSE b

At(b, i) == b[i + 1]

Slice(b, lo, hi) == SubSeq(b, lo + 1, Min(hi, Len(b)))

SliceFrom(b, lo) == SubSeq(b, lo + 1, Len(b))

RECURSIVE FromBytesBig(_)
FromBytesBig(b) ==
    IF b = <<>> THEN 0
    ELSE 256 * FromBytesBig(SubSeq(b, 1, Len(b) - 1)) + b[Len(b)]

RECURSIVE SumBytes(_)
SumBytes(b) == IF b = <<>> THEN 0 ELSE b[1] + SumBytes(Tail(b))

Checksum(b) == SumBytes(b) % 256

---------------------------------------------------------------------------
(* Enumerations *)

SensorValues == {Temperature, Humidity}

SensorName(v) == IF v = Temperature THEN "Temperature" ELSE "Humidity"

(* a separate tag 2 given to MSG_BACKLOG *)
MessageTypeValues_WithBacklog == {MSG_POLL, MSG_PUB, 2, MSG_ACK, MSG_NACK}

MessageTypeValues == {MSG_POLL, MSG_PUB, MSG_ACK, MSG_NACK}

---------------------------------------------------------------------------
(* The byte source: what _ser.read(10) can hand back *)

StartBytes == {StartMarker, 171}

TypeBytes == {0, 1, 2, 254, 255}

AddrLowBytes == {66, 67}

SensorHighBytes == {0, 1}

SensorLowBytes == {117, 118, 119}

ValueHighBytes == {9, 137}

ShortLens == {0, 1, 5, 9}

Bodies ==
    {<<s, t, 6, 0, a, h, c, v, 41>> :
        s \in StartBytes, t \in TypeBytes, a \in AddrLowBytes,
        h \in SensorHighBytes, c \in SensorLowBytes, v \in ValueHighBytes}

FlipAddrBit(b) == [b EXCEPT ![5] = IF b[5] = 66 THEN 67 ELSE 66]

CrcChoices(b) == {Checksum(b), Checksum(FlipAddrBit(b))}

Frames == UNION {{Append(b, k) : k \in CrcChoices(b)} : b \in Bodies}

ShortReads == {SubSeq(f, 1, k) : f \in Frames, k \in ShortLens}

---------------------------------------------------------------------------
(* CSV file *)

NoFile == [exists |-> FALSE, rows |-> <<>>]

File(rows) == [exists |-> TRUE, rows |-> rows]

Header ==
    [kind |-> "header", cols |-> <<"Timestamp", "Node Addr", "Sensor", "Value">>]

Row(ts, e) ==
    [kind |-> "row",
     cols |-> <<ts, e.node_addr[1], SensorName(e.sensor[1]), e.value[1]>>]

(* the header written on every construction (mode "at" instead of "xt") *)
OpenExclusive_AppendMode(f) == File(Append(f.rows, Header))

OpenExclusive(f) == IF f.exists THEN f ELSE File(<<Header>>)

(* log_event opening the file in mode "wt": earlier rows are lost *)
OpenAppend_Truncating(f, row) == File(<<row>>)

(* log_event inserting the new row right after the header *)
OpenAppend_Prepending(f, row) ==
    File(<<f.rows[1], row>> \o Tail(f.rows))

OpenAppend(f, row) == File(Append(f.rows, row))

---------------------------------------------------------------------------
(* Objects *)

EmptyMessage ==
    [start |-> Unset, msg_type |-> Unset, payload_size |-> Unset,
     payload |-> Unset, crc |-> Unset]

EmptyEvent == [node_addr |-> Unset, sensor |-> Unset, value |-> Unset]

NoExc == [kind |-> "none", site |-> "none"]

Raised(kind, site) == [kind |-> kind, site |-> site]

---------------------------------------------------------------------------
(* Interface.__init__ : serial handle *)

(* the handle preset to None before the port scan *)
InitSerial_DefaultNone(portGiven, found, openOk) ==
    IF portGiven
    THEN IF found /\ openOk THEN "open" ELSE "none"
    ELSE "notopen"

InitSerial(portGiven, found, openOk) ==
    IF portGiven
    THEN IF found /\ openOk THEN "open" ELSE "unset"
    ELSE "notopen"

(* get_message with the payload slice taken one byte late (buf[4:10]) *)
ParseFrame_ShiftedPayload(b) ==
    IF Len(b) < 2 THEN [outcome |-> "IndexError", message |-> EmptyMessage]
    ELSE IF At(b, 1) \notin MessageTypeValues
         THEN [outcome |-> "ValueError", message |-> EmptyMessage]
    ELSE IF Len(b) < 10 THEN [outcome |-> "IndexError", message |-> EmptyMessage]
    ELSE [outcome |-> "Message",
          message |-> [start |-> Some(At(b, 0)),
                       msg_type |-> Some(At(b, 1)),
                       payload_size |-> Some(At(b, 2)),
                       payload |-> Some(Slice(b, 4, 10)),
                       crc |-> Some(At(b, 9))]]

(* get_message handing back the Message of the previous call once it has one *)
ParseFrame_Stateful(b) ==
    IF Len(b) < 2 THEN [outcome |-> "IndexError", message |-> EmptyMessage]
    ELSE IF Len(b) = 10 /\ message # EmptyMessage
         THEN [outcome |-> "Message", message |-> message]
    ELSE IF At(b, 1) \notin MessageTypeValues
         THEN [outcome |-> "ValueError", message |-> EmptyMessage]
    ELSE IF Len(b) < 10 THEN [outcome |-> "IndexError", message |-> EmptyMessage]
    ELSE [outcome |-> "Message",
          message |-> [start |-> Some(At(b, 0)),
                       msg_type |-> Some(At(b, 1)),
                       payload_size |-> Some(At(b, 2)),
                       payload |-> Some(Slice(b, 3, 9)),
                       crc |-> Some(At(b, 9))]]

(* Interface.get_message on the bytes b returned by read(10) *)
ParseFrame(b) ==
    IF Len(b) < 1 THEN [outcome |-> "IndexError", message |-> EmptyMessage]
    ELSE IF Len(b) < 2 THEN [outcome |-> "IndexError", message |-> EmptyMessage]
    ELSE IF At(b, 1) \notin MessageTypeValues
         THEN [outcome |-> "ValueError", message |-> EmptyMessage]
    ELSE IF Len(b) < 3 THEN [outcome |-> "IndexError", message |-> EmptyMessage]
    ELSE IF Len(b) < 10 THEN [outcome |-> "IndexError", message |-> EmptyMessage]
    ELSE [outcome |-> "Message",
          message |-> [start |-> Some(At(b, 0)),
                       msg_type |-> Some(At(b, 1)),
                       payload_size |-> Some(At(b, 2)),
                       payload |-> Some(Slice(b, 3, 9)),
                       crc |-> Some(At(b, 9))]]

(* from_buffer looking at the low byte of the sensor field only *)
FromBufferResult_LowByteSensor(e, p) ==
    LET addr == FromBytesBig(Slice(p, 0, 2))
        code == At(p, 3)
        raw  == FromBytesBig(SliceFrom(p, 4))
    IN  IF code \notin SensorValues
        THEN [outcome |-> "ValueError",
              event |-> [e EXCEPT !.node_addr = Some(addr)]]
        ELSE [outcome |-> "SensorEvent",
              event |-> [node_addr |-> Some(addr),
                         sensor |-> Some(code),
                         value |-> Some(<<raw, 100>>)]]

(* from_buffer reading a 4-byte value from payload[2:] *)
FromBufferResult_WideValue(e, p) ==
    LET addr == FromBytesBig(Slice(p, 0, 2))
        code == FromBytesBig(Slice(p, 2, 4))
        raw  == FromBytesBig(SliceFrom(p, 2))
    IN  IF code \notin SensorValues
        THEN [outcome |-> "ValueError",
              event |-> [e EXCEPT !.node_addr = Some(addr)]]
        ELSE [outcome |-> "SensorEvent",
              event |-> [node_addr |-> Some(addr),
                         sensor |-> Some(code),
                         value |-> Some(<<raw, 100>>)]]

(* from_buffer swallowing the unknown sensor code once the object holds one *)
FromBufferResult_SwallowError(e, p) ==
    LET addr == FromBytesBig(Slice(p, 0, 2))
        code == FromBytesBig(Slice(p, 2, 4))
        raw  == FromBytesBig(SliceFrom(p, 4))
    IN  IF code \notin SensorValues
        THEN IF e.sensor # Unset
             THEN [outcome |-> "SensorEvent",
                   event |-> [e EXCEPT !.node_addr = Some(addr)]]
             ELSE [outcome |-> "ValueError",
                   event |-> [e EXCEPT !.node_addr = Some(addr)]]
        ELSE [outcome |-> "SensorEvent",
              event |-> [node_addr |-> Some(addr),
                         sensor |-> Some(code),
                         value |-> Some(<<raw, 100>>)]]

(* SensorEvent.from_buffer on payload p, starting from event object e *)
FromBufferResult(e, p) ==
    LET addr == FromBytesBig(Slice(p, 0, 2))
        code == FromBytesBig(Slice(p, 2, 4))
        raw  == FromBytesBig(SliceFrom(p, 4))
    IN  IF code \notin SensorValues
        THEN [outcome |-> "ValueError",
              event |-> [e EXCEPT !.node_addr = Some(addr)]]
        ELSE [outcome |-> "SensorEvent",
              event |-> [node_addr |-> Some(addr),
                         sensor |-> Some(code),
                         value |-> Some(<<raw, 100>>)]]

(* a failed frame pushed back onto the source *)
Consume_UnreadOnFailure(cur, b, r) ==
    IF r.outcome = "Message" THEN cur + Len(b) ELSE cur

(* _ser.read(10): the bytes handed back are consumed before they are parsed *)
Consume(cur, b, r) == cur + Len(b)

---------------------------------------------------------------------------
Init ==
    /\ pc = "start"
    /\ ser = "unset"
    /\ csv = NoFile
    /\ buf = <<>>
    /\ outcome = "none"
    /\ message = EmptyMessage
    /\ event = EmptyEvent
    /\ evOutcome = "none"
    /\ logged = FALSE
    /\ exc = NoExc
    /\ clock = 0
    /\ runs = 1
    /\ cursor = 0

(* mesh = Interface(port); event = SensorEvent() *)
Construct ==
    /\ pc = "start"
    /\ \E portGiven \in BOOLEAN, found \in BOOLEAN, openOk \in BOOLEAN :
          ser' = InitSerial(portGiven, found, openOk)
    /\ csv' = OpenExclusive(csv)
    /\ event' = EmptyEvent
    /\ pc' = "read"
    /\ UNCHANGED <<buf, outcome, message, evOutcome, logged, exc, clock, runs,
                   cursor>>

Halt(kind, site) ==
    /\ pc' = "halted"
    /\ exc' = Raised(kind, site)

(* message = mesh.get_message() *)
GetMessage ==
    /\ pc = "read"
    /\ evOutcome' = "none"
    /\ logged' = FALSE
    /\ UNCHANGED <<ser, csv, event, runs>>
    /\ CASE ser = "unset" ->
              /\ Halt("AttributeError", "get_message")
              /\ outcome' = "AttributeError"
              /\ buf' = <<>>
              /\ UNCHANGED <<message, clock, cursor>>
         [] ser = "none" ->
              /\ message' = EmptyMessage
              /\ outcome' = "Message"
              /\ buf' = <<>>
              /\ pc' = "decode"
              /\ UNCHANGED <<exc, clock, cursor>>
         [] ser = "notopen" ->
              /\ Halt("SerialException", "get_message")
              /\ outcome' = "SerialException"
              /\ buf' = <<>>
              /\ UNCHANGED <<message, clock, cursor>>
         [] ser = "open" ->
              /\ clock < MaxReads
              /\ clock' = clock + 1
              /\ \/ /\ Halt("SerialException", "get_message")
                    /\ outcome' = "SerialException"
                    /\ buf' = <<>>
                    /\ UNCHANGED <<message, cursor>>
                 \/ \E b \in Frames \cup ShortReads :
                       LET r == ParseFrame(b) IN
                       /\ buf' = b
                       /\ cursor' = Consume(cursor, b, r)
                       /\ outcome' = r.outcome
                       /\ IF r.outcome = "Message"
                          THEN /\ message' = r.message
                               /\ pc' = "decode"
                               /\ UNCHANGED exc
                          ELSE /\ Halt(r.outcome, "get_message")
                               /\ UNCHANGED message

(* event.from_buffer(message.payload) *)
FromBuffer ==
    /\ pc = "decode"
    /\ UNCHANGED <<ser, csv, buf, outcome, message, logged, clock, runs, cursor>>
    /\ IF message.payload = Unset
       THEN /\ Halt("AttributeError", "from_buffer")
            /\ evOutcome' = "AttributeError"
            /\ UNCHANGED event
       ELSE LET r == FromBufferResult(event, message.payload[1]) IN
            /\ event' = r.event
            /\ evOutcome' = r.outcome
            /\ IF r.outcome = "SensorEvent"
               THEN pc' = "log" /\ UNCHANGED exc
               ELSE Halt(r.outcome, "from_buffer")

(* print(...); mesh.log_event(event) *)
LogEvent ==
    /\ pc = "log"
    /\ csv' = OpenAppend(csv, Row(clock, event))
    /\ logged' = TRUE
    /\ pc' = "read"
    /\ UNCHANGED <<ser, buf, outcome, message, event, evOutcome, exc, clock, runs,
                   cursor>>

(* except KeyboardInterrupt: pass *)
Interrupt ==
    /\ pc \in {"read", "decode", "log"}
    /\ Halt("KeyboardInterrupt", "loop")
    /\ UNCHANGED <<ser, csv, buf, outcome, message, event, evOutcome, logged,
                   clock, runs, cursor>>

(* the script is started again; only the file survives the process *)
Restart ==
    /\ pc = "halted"
    /\ runs < MaxRuns
    /\ runs' = runs + 1
    /\ pc' = "start"
    /\ ser' = "unset"
    /\ buf' = <<>>
    /\ outcome' = "none"
    /\ message' = EmptyMessage
    /\ event' = EmptyEvent
    /\ evOutcome' = "none"
    /\ logged' = FALSE
    /\ exc' = NoExc
    /\ UNCHANGED <<csv, clock, cursor>>

Next ==
    \/ Construct
    \/ GetMessage
    \/ FromBuffer
    \/ LogEvent
    \/ Interrupt
    \/ Restart

Spec == Init /\ [][Next]_vars

---------------------------------------------------------------------------
(* Vocabulary of the properties *)

FullRead == Len(buf) = FrameLen

CrcOk(b) == At(b, 9) = Checksum(<<b[1], b[2], b[3], b[4], b[5], b[6], b[7], b[8], b[9]>>)

Attempted == evOutcome \in {"SensorEvent", "ValueError"}

Payload == message.payload[1]

RECURSIVE ToBytesBig(_, _)
ToBytesBig(n, len) ==
    IF len = 0 THEN <<>>
    ELSE Append(ToBytesBig(n \div 256, len - 1), n % 256)

Encode(e) ==
    ToBytesBig(e.node_addr[1], 2) \o ToBytesBig(e.sensor[1], 2)
        \o ToBytesBig(e.value[1][1], 2)

ExamplePayload == <<0, 66, 0, 117, 9, 41>>

---------------------------------------------------------------------------
(* C1: a 10-byte frame whose crc byte differs from the checksum of bytes   *)
(* 0..8 (for instance a valid frame with one payload bit flipped and the   *)
(* crc left alone) is rejected by get_message: no Message is returned for  *)
(* it and no row is logged for it.                                         *)
C1_BadChecksumRejected ==
    (FullRead /\ ~CrcOk(buf)) => (outcome # "Message" /\ ~logged)

(* C2: a 10-byte frame whose first byte is not the start marker is         *)
(* rejected by get_message: no Message is returned, and the loop neither   *)
(* decodes nor logs an event from it.                                      *)
C2_BadStartRejected ==
    (FullRead /\ At(buf, 0) # StartMarker)
        => (outcome # "Message" /\ evOutcome = "none" /\ ~logged)

(* C3: a 10-byte frame with the start marker, a recognised msg_type and a  *)
(* correct checksum always yields a Message, never an error, whose fields  *)
(* are start = buf[0], msg_type = buf[1], payload_size = buf[2],           *)
(* payload = buf[3..9) in order and crc = buf[9].                          *)
C3_ValidFrameDecoded ==
    (/\ FullRead
     /\ At(buf, 0) = StartMarker
     /\ At(buf, 1) \in {0, 1, 254, 255}
     /\ CrcOk(buf))
        => /\ outcome = "Message"
           /\ ~(pc = "halted" /\ exc.site = "get_message")
           /\ message.start = <<buf[1]>>
           /\ message.msg_type = <<buf[2]>>
           /\ message.payload_size = <<buf[3]>>
           /\ message.payload = <<<<buf[4], buf[5], buf[6], buf[7], buf[8], buf[9]>>>>
           /\ message.crc = <<buf[10]>>

C3_Witness ==
    /\ pc = "decode"
    /\ FullRead
    /\ At(buf, 0) = StartMarker
    /\ At(buf, 1) = MSG_ACK
    /\ CrcOk(buf)
    /\ outcome = "Message"

(* C4: the payload interpreter runs, and a row is logged, only for Pub     *)
(* frames: for a frame of type Poll, Ack or Nack from_buffer is never      *)
(* invoked and no row is logged.                                           *)
C4_OnlyPubDecoded ==
    (FullRead /\ At(buf, 1) \in {MSG_POLL, MSG_ACK, MSG_NACK})
        => (evOutcome = "none" /\ ~logged)

(* C5: the rejection of an unrecognised msg_type or of an unrecognised     *)
(* sensor code is not fatal: it never leaves the gateway loop stopped.     *)
C5_RejectionNotFatal ==
    ~(pc = "halted" /\ exc.kind = "ValueError")

(* C6: when the byte source delivers fewer than 10 bytes for a frame,      *)
(* get_message ends with the truncation error (the IndexError of the       *)
(* missing byte, or the source's own error on a disconnect), returns no    *)
(* Message, and nothing further is read.                                   *)
C6_ShortReadTruncated ==
    (outcome # "none" /\ ser = "open" /\ Len(buf) < FrameLen)
        => (outcome \in {"IndexError", "SerialException"} /\ pc = "halted")

C8_FieldsDecoded ==
    evOutcome = "SensorEvent" =>
        /\ event.node_addr = <<256 * At(Payload, 0) + At(Payload, 1)>>
        /\ event.value = <<<<256 * At(Payload, 4) + At(Payload, 5), 100>>>>
        /\ Payload = ExamplePayload =>
              event = [node_addr |-> <<66>>, sensor |-> <<Temperature>>,
                       value |-> <<<<2345, 100>>>>]
        /\ Encode(event) = Payload

C8_Witness ==
    /\ evOutcome = "SensorEvent"
    /\ pc = "log"
    /\ Payload = ExamplePayload

(* C9: the value is signed: with the top bit of payload[4] set, value_raw  *)
(* is 256*payload[4] + payload[5] - 65536, otherwise 256*payload[4] +      *)
(* payload[5].                                                             *)
C9_SignedValue ==
    evOutcome = "SensorEvent" =>
        LET raw16 == 256 * At(Payload, 4) + At(Payload, 5) IN
        event.value[1][1] = IF At(Payload, 4) >= 128 THEN raw16 - 65536 ELSE raw16

(* C10: once an Interface was constructed the log holds exactly one header *)
(* row and it is the first row; a construction against an existing log     *)
(* leaves every recorded row as it was and adds none.                      *)
HeaderFirstAndOnly ==
    /\ (pc # "start" \/ runs > 1) => csv.exists
    /\ csv.exists =>
          /\ Len(csv.rows) >= 1
          /\ csv.rows[1].kind = "header"
          /\ csv.rows[1].cols = <<"Timestamp", "Node Addr", "Sensor", "Value">>
          /\ \A i \in 2..Len(csv.rows) : csv.rows[i].kind # "header"

ConstructKeepsRows ==
    (pc = "start" /\ pc' = "read" /\ csv.exists) => csv' = csv

C10_HeaderOnce == [](HeaderFirstAndOnly) /\ [][ConstructKeepsRows]_vars

C10_Witness ==
    /\ runs = 2
    /\ pc = "read"
    /\ Len(csv.rows) >= 2

---------------------------------------------------------------------------
(* Vocabulary of the later properties *)

NameOf(code) == IF code = 117 THEN "Temperature" ELSE "Humidity"

LastRow == csv.rows[Len(csv.rows)]

DataRows == {i \in 1..Len(csv.rows) : csv.rows[i].kind = "row"}

LogEventStep == pc = "log" /\ pc' = "read"

(* C11: log_event is append-only: a call makes the log exactly one row     *)
(* longer, the new row is the last one and carries the event's node_addr,  *)
(* sensor name and value, and every earlier row keeps its place and        *)
(* content.                                                                *)
LogEventAppends ==
    LogEventStep =>
        /\ Len(csv'.rows) = Len(csv.rows) + 1
        /\ SubSeq(csv'.rows, 1, Len(csv.rows)) = csv.rows
        /\ csv'.rows[Len(csv.rows) + 1].kind = "row"
        /\ csv'.rows[Len(csv.rows) + 1].cols[2] = event.node_addr[1]
        /\ csv'.rows[Len(csv.rows) + 1].cols[3] = NameOf(event.sensor[1])
        /\ csv'.rows[Len(csv.rows) + 1].cols[4] = event.value[1]

C11_AppendOnly == [][LogEventAppends]_vars

C11_Witness ==
    /\ logged
    /\ pc = "read"
    /\ Len(csv.rows) >= 3

(* C12: frames are handled strictly in arrival order: the rows of the log  *)
(* appear in the order in which their frames were read (the read index a   *)
(* row carries grows strictly down the log, so no frame yields two rows),  *)
(* the last row is the one of the latest frame read, and whenever the loop *)
(* is about to read a frame the row of the previous one is already in the  *)
(* log.                                                                    *)
C12_ArrivalOrder ==
    /\ \A i \in DataRows : \A j \in DataRows :
          i < j => csv.rows[i].cols[1] < csv.rows[j].cols[1]
    /\ \A i \in DataRows : csv.rows[i].cols[1] \in 1..clock
    /\ logged =>
          /\ LastRow.kind = "row"
          /\ LastRow.cols[1] = clock
          /\ LastRow.cols[2] = 256 * At(buf, 3) + At(buf, 4)
    /\ pc = "read" => (outcome = "none" \/ logged)

C12_Witness ==
    /\ pc = "read"
    /\ logged
    /\ clock = 2
    /\ Cardinality(DataRows) = 2
    /\ csv.rows[2].cols[2] # csv.rows[3].cols[2]

(* C13: a constructed Interface always has a definite handle: once the    *)
(* constructor has returned, _ser is an open handle or explicitly absent,  *)
(* never a missing attribute, and get_message never fails on an undefined  *)
(* handle.                                                                 *)
C13_DefiniteHandle ==
    /\ pc \in {"read", "decode", "log", "halted"} => ser # "unset"
    /\ exc.kind # "AttributeError"

(* C14: an interrupt stops the loop between frames only: when the loop was *)
(* stopped by an interrupt, either no frame was read yet or the latest     *)
(* frame read has had its row logged.                                      *)
C14_InterruptBetweenFrames ==
    exc.kind = "KeyboardInterrupt" => (outcome \in {"none"} \/ logged)

(* C15: a get_message call that gets 10 bytes moves the read cursor of the *)
(* byte source by exactly 10, whether it returns a Message or fails, and   *)
(* nothing else moves the cursor: a failed frame is not pushed back, so    *)
(* the next read starts right after it.                                    *)
ReadStep == pc = "read" /\ ser = "open" /\ clock' = clock + 1

CursorMoves ==
    /\ (ReadStep /\ Len(buf') = FrameLen) =>
          (cursor' = cursor + 10 /\ outcome' \in {"Message", "ValueError"})
    /\ ~ReadStep => cursor' = cursor

C15_CursorAdvancesByFrame == [][CursorMoves]_vars

C15_Witness ==
    /\ FullRead
    /\ outcome = "ValueError"
    /\ clock = 2
    /\ cursor = 20

(* C16: get_message keeps no state across frames: whatever was read, had   *)
(* failed or was logged before, the outcome of a call that got 10 bytes is *)
(* the one fixed function of these 10 bytes (a Message of their byte       *)
(* ranges when byte 1 is a known type, the unknown-type error otherwise).  *)
C16_OutcomeFromBytesOnly ==
    FullRead =>
        IF buf[2] \in {0, 1, 254, 255}
        THEN /\ outcome = "Message"
             /\ message = [start |-> <<buf[1]>>,
                           msg_type |-> <<buf[2]>>,
                           payload_size |-> <<buf[3]>>,
                           payload |-> <<SubSeq(buf, 4, 9)>>,
                           crc |-> <<buf[10]>>]
        ELSE outcome = "ValueError"

C16_Witness ==
    /\ runs = 2
    /\ clock = 2
    /\ cursor < 20
    /\ FullRead
    /\ outcome = "Message"

(* C17: a 10-byte frame whose msg_type byte is none of 0, 1, 0xFE, 0xFF    *)
(* ends get_message with the unknown-type error (the ValueError of         *)
(* MessageType): no Message is returned and nothing is decoded or logged   *)
(* from it.                                                                *)
C17_UnknownTypeRejected ==
    (FullRead /\ At(buf, 1) \notin {0, 1, 254, 255})
        => /\ outcome = "ValueError"
           /\ exc = [kind |-> "ValueError", site |-> "get_message"]
           /\ pc = "halted"
           /\ evOutcome = "none"
           /\ ~logged

C17_Witness ==
    /\ FullRead
    /\ At(buf, 1) = 2
    /\ outcome = "ValueError"

(* C18: every logged row has node_addr, sensor and value of one and the    *)
(* same frame: the event handed to log_event, and the row written, are     *)
(* all three fields of the latest frame read, and an event left half       *)
(* overwritten by a failed decode never reaches the log.                   *)
C18_RowFromOneFrame ==
    /\ pc = "log" =>
          event = [node_addr |-> <<256 * At(buf, 3) + At(buf, 4)>>,
                   sensor |-> <<256 * At(buf, 5) + At(buf, 6)>>,
                   value |-> <<<<256 * At(buf, 7) + At(buf, 8), 100>>>>]
    /\ logged =>
          /\ LastRow.kind = "row"
          /\ LastRow.cols[2] = 256 * At(buf, 3) + At(buf, 4)
          /\ LastRow.cols[3] = NameOf(256 * At(buf, 5) + At(buf, 6))
          /\ LastRow.cols[4] = <<256 * At(buf, 7) + At(buf, 8), 100>>
    /\ evOutcome = "ValueError" => (pc = "halted" /\ ~logged)

C18_Witness ==
    /\ evOutcome = "ValueError"
    /\ event.sensor # Unset
    /\ event.node_addr = <<67>>
    /\ LastRow.kind = "row"
    /\ LastRow.cols[2] = 66

====
